---------------------------- MODULE Spec2Model ----------------------------
(***************************************************************************)
(* A model of the QR code library github.com/ashokshau/qrcode:             *)
(*   NewQRCode (version choice, data encoding, Reed-Solomon, matrix        *)
(*   construction, format information), QRCode.WritePNG, the GF(256)       *)
(*   arithmetic of reedsolomon.go and calculateBCHFormat.                  *)
(* Bytes are naturals 0..255, bit strings are sequences of BOOLEAN, a      *)
(* Size x Size grid ([][]bool) is a row-major sequence of Size*Size        *)
(* BOOLEANs read with At(grid, Size, r, c).                                *)
(***************************************************************************)
EXTENDS Naturals, Integers, Sequences, FiniteSets, TLC

VARIABLES pc, content, level, qr, err, dataCodewords, finalMessage,
          scale, img, decoded, decodeErr,
          rsData, rsEC, rsOut,
          fmtIn, fmtWord, received

vars == <<pc, content, level, qr, err, dataCodewords, finalMessage,
          scale, img, decoded, decodeErr,
          rsData, rsEC, rsOut, fmtIn, fmtWord, received>>

qrVars == <<content, level, qr, err, dataCodewords, finalMessage,
            scale, img, decoded, decodeErr>>
rsVars == <<rsData, rsEC, rsOut>>
bchVars == <<fmtIn, fmtWord, received>>

(***************************************************************************)
(* Bounds of the model.                                                    *)
(***************************************************************************)
MaxLen == 80
MaxSeed == 0
MaxScale == 2
MaxLevelInput == 3
MaxRSLen == 3
MaxRSEC == 4
MaxFlips == 3

(***************************************************************************)
(* Integer helpers: Go's >>, &1 and ^ on non-negative ints.                *)
(***************************************************************************)
RECURSIVE Pow2(_)
Pow2(n) == IF n = 0 THEN 1 ELSE 2 * Pow2(n - 1)

Bit(x, i) == (x \div Pow2(i)) % 2

\* x ^ y and x | y, four bits at a time: the 16 x 16 tables of the two
\* operations on 4-bit values, then digit by digit in base 16.
RECURSIVE SlowXor(_, _)
SlowXor(a, b) ==
    IF a = 0 THEN b
    ELSE IF b = 0 THEN a
    ELSE (((a % 2) + (b % 2)) % 2) + 2 * SlowXor(a \div 2, b \div 2)

RECURSIVE SlowOr(_, _)
SlowOr(a, b) ==
    IF a = 0 THEN b
    ELSE IF b = 0 THEN a
    ELSE (IF (a % 2) = 1 \/ (b % 2) = 1 THEN 1 ELSE 0) + 2 * SlowOr(a \div 2, b \div 2)

NibbleXor == SubSeq([k \in 1..256 |-> SlowXor((k - 1) \div 16, (k - 1) % 16)], 1, 256)
NibbleOr == SubSeq([k \in 1..256 |-> SlowOr((k - 1) \div 16, (k - 1) % 16)], 1, 256)

RECURSIVE BitXor(_, _)
BitXor(a, b) ==
    IF a = 0 THEN b
    ELSE IF b = 0 THEN a
    ELSE NibbleXor[(a % 16) * 16 + (b % 16) + 1] + 16 * BitXor(a \div 16, b \div 16)

RECURSIVE BitOr(_, _)
BitOr(a, b) ==
    IF a = 0 THEN b
    ELSE IF b = 0 THEN a
    ELSE NibbleOr[(a % 16) * 16 + (b % 16) + 1] + 16 * BitOr(a \div 16, b \div 16)

RECURSIVE SlowPopCount(_)
SlowPopCount(x) == IF x = 0 THEN 0 ELSE (x % 2) + SlowPopCount(x \div 2)

BytePopCount == SubSeq([k \in 1..256 |-> SlowPopCount(k - 1)], 1, 256)

\* The number of 1 bits of x.
RECURSIVE PopCount(_)
PopCount(x) == IF x = 0 THEN 0 ELSE BytePopCount[(x % 256) + 1] + PopCount(x \div 256)

\* A sequence-valued function made into an explicit tuple.
Force(s) == SubSeq(s, 1, Len(s))

Min(a, b) == IF a < b THEN a ELSE b

(***************************************************************************)
(* reedsolomon.go: GF(256) tables, built by init().                        *)
(***************************************************************************)
PrimitivePoly == 285

\* One iteration of init()'s loop: expTable[i] = val; logTable[val] = i;
\* val *= 2; if val >= 256 { val ^= 0x11D }.
initStep(i, st) ==
    LET v2 == st.val * 2
    IN [val |-> IF v2 >= 256 THEN BitXor(v2, PrimitivePoly) ELSE v2,
        exp |-> [st.exp EXCEPT ![i + 1] = st.val],
        log |-> [st.log EXCEPT ![st.val + 1] = i]]

\* The iterations lo..hi in order. The range is split in halves, and the first
\* half is evaluated (the test on left) before the second starts, which keeps
\* the evaluation shallow; the loops below are written the same way.
RECURSIVE initLoop(_, _, _)
initLoop(lo, hi, st) ==
    IF lo > hi THEN st
    ELSE IF lo = hi THEN initStep(lo, st)
    ELSE LET mid == (lo + hi) \div 2
             left == initLoop(lo, mid, st)
         IN IF left.val < 0 THEN left ELSE initLoop(mid + 1, hi, left)

gfTables ==
    LET zero == Force([i \in 1..256 |-> 0])
    IN initLoop(0, 254, [val |-> 1, exp |-> zero, log |-> zero])

\* expTable[i] and logTable[v] of the source (0-based arrays of 256 ints).
expTable(i) == gfTables.exp[i + 1]
logTable(v) == gfTables.log[v + 1]

gfMulBadModulus(x, y) ==
    IF x = 0 \/ y = 0 THEN 0
    ELSE expTable((logTable(x) + logTable(y)) % 256)

gfMul(x, y) ==
    IF x = 0 \/ y = 0 THEN 0
    ELSE expTable((logTable(x) + logTable(y)) % 255)

\* res[i+j] ^= gfMul(p[i], q[j]): the terms of the 1-based position k = i + j - 1
\* for i = lo..hi.
RECURSIVE polyMulCoef(_, _, _, _, _)
polyMulCoef(p, q, k, lo, hi) ==
    IF lo > hi THEN 0
    ELSE IF lo = hi
    THEN LET j == k - lo + 1
         IN IF j >= 1 /\ j <= Len(q) THEN gfMul(p[lo], q[j]) ELSE 0
    ELSE LET mid == (lo + hi) \div 2
         IN BitXor(polyMulCoef(p, q, k, lo, mid), polyMulCoef(p, q, k, mid + 1, hi))

gfPolyMul(p, q) ==
    Force([k \in 1..(Len(p) + Len(q) - 1) |-> polyMulCoef(p, q, k, 1, Len(p))])

\* gen = gfPolyMul(gen, []int{1, expTable[i]}) for i = lo..hi.
RECURSIVE generatorLoop(_, _, _)
generatorLoop(gen, lo, hi) ==
    IF lo > hi THEN gen
    ELSE IF lo = hi THEN gfPolyMul(gen, <<1, expTable(lo)>>)
    ELSE LET mid == (lo + hi) \div 2
             left == generatorLoop(gen, lo, mid)
         IN IF Len(left) < 0 THEN left ELSE generatorLoop(left, mid + 1, hi)

GenerateGeneratorPoly(numECCodewords) == generatorLoop(<<1>>, 0, numECCodewords - 1)

\* One iteration of the division loop (i is 1-based here).
divideStep(remainder, generator, i) ==
    LET coef == remainder[i]
    IN IF coef = 0 THEN remainder
       ELSE Force([k \in 1..Len(remainder) |->
                     IF k >= i /\ k < i + Len(generator)
                     THEN BitXor(remainder[k], gfMul(generator[k - i + 1], coef))
                     ELSE remainder[k]])

RECURSIVE divideLoop(_, _, _, _)
divideLoop(remainder, generator, lo, hi) ==
    IF lo > hi THEN remainder
    ELSE IF lo = hi THEN divideStep(remainder, generator, lo)
    ELSE LET mid == (lo + hi) \div 2
             left == divideLoop(remainder, generator, lo, mid)
         IN IF Len(left) < 0 THEN left ELSE divideLoop(left, generator, mid + 1, hi)

CalculateECCodewords(data, numECCodewords) ==
    LET generator == GenerateGeneratorPoly(numECCodewords)
        remainder == Force([k \in 1..(Len(data) + numECCodewords) |->
                              IF k <= Len(data) THEN data[k] ELSE 0])
        done == divideLoop(remainder, generator, 1, Len(data))
    IN SubSeq(done, Len(data) + 1, Len(done))

(***************************************************************************)
(* calculateBCHFormat: the 15-bit format word of a 5-bit input.            *)
(***************************************************************************)
FormatGenerator == 1335  \* 0x537
FormatMask == 21522      \* 0x5412

\* for i := hi; i >= 0; i-- { if (d>>(i+10))&1 == 1 { d ^= (g << i) } }
RECURSIVE bchDivide(_, _, _)
bchDivide(d, g, i) ==
    IF i < 0 THEN d
    ELSE bchDivide(IF Bit(d, i + 10) = 1 THEN BitXor(d, g * Pow2(i)) ELSE d, g, i - 1)

calculateBCHFormatShortLoop(data) ==
    LET d == bchDivide(data * 1024, FormatGenerator, 3)
    IN BitXor(BitOr(data * 1024, d), FormatMask)

calculateBCHFormat(data) ==
    LET d == bchDivide(data * 1024, FormatGenerator, 4)
    IN BitXor(BitOr(data * 1024, d), FormatMask)

(***************************************************************************)
(* Mode indicator, levels and the version table.                           *)
(***************************************************************************)
ModeByte == 4

LevelL == 1
LevelM == 0
LevelQ == 3
LevelH == 2

VersionInfo(total, ec, blocks) ==
    [TotalCodewords |-> total, ECCodewords |-> ec, Blocks |-> blocks]

versionTable ==
    << (LevelL :> VersionInfo(26, 7, 1)) @@ (LevelM :> VersionInfo(26, 10, 1))
         @@ (LevelQ :> VersionInfo(26, 13, 1)) @@ (LevelH :> VersionInfo(26, 17, 1)),
       (LevelL :> VersionInfo(44, 10, 1)) @@ (LevelM :> VersionInfo(44, 16, 1))
         @@ (LevelQ :> VersionInfo(44, 22, 1)) @@ (LevelH :> VersionInfo(44, 28, 1)),
       (LevelL :> VersionInfo(70, 15, 1)) @@ (LevelM :> VersionInfo(70, 26, 1))
         @@ (LevelQ :> VersionInfo(70, 36, 2)) @@ (LevelH :> VersionInfo(70, 44, 2)),
       (LevelL :> VersionInfo(100, 20, 1)) @@ (LevelM :> VersionInfo(100, 36, 2))
         @@ (LevelQ :> VersionInfo(100, 52, 2)) @@ (LevelH :> VersionInfo(100, 64, 4)) >>

\* versionTable[ver][level]: a missing key of a Go map reads as the zero value.
tableLookup(ver, lvl) ==
    IF ver \in DOMAIN versionTable /\ lvl \in DOMAIN versionTable[ver]
    THEN versionTable[ver][lvl]
    ELSE VersionInfo(0, 0, 0)

(***************************************************************************)
(* BitBuffer.                                                              *)
(***************************************************************************)
\* Put appends the low `length` bits of num, most significant first.
Put(bits, num, length) ==
    bits \o Force([i \in 1..length |-> Bit(num, length - i) = 1])

(***************************************************************************)
(* NewQRCode: version choice.                                              *)
(***************************************************************************)
totalDataBitsNoHeader(data) == Len(data) * 8

\* totalDataBits := 4 + 8 + len(data)*8
totalDataBits(data) == 4 + 8 + Len(data) * 8

LastTriedVersion == 4

\* The loop over ver = 1..4; the result is 0 when nothing was found.
RECURSIVE versionLoop(_, _, _)
versionLoop(data, lvl, ver) ==
    IF ver > LastTriedVersion THEN 0
    ELSE LET info == tableLookup(ver, lvl)
         IN IF info.Blocks > 1
            THEN versionLoop(data, lvl, ver + 1)
            ELSE IF totalDataBits(data) <= (info.TotalCodewords - info.ECCodewords) * 8
                 THEN ver
                 ELSE versionLoop(data, lvl, ver + 1)

chooseVersion(data, lvl) == versionLoop(data, lvl, 1)

(***************************************************************************)
(* NewQRCode: data encoding, terminator and padding.                       *)
(***************************************************************************)
\* Put(ModeByte, 4); Put(len(data), 8); Put(int(b), 8) for each byte.
segmentBits(data) ==
    Put(Put(<<>>, ModeByte, 4), Len(data), 8)
      \o Force([k \in 1..(8 * Len(data)) |->
                  Bit(data[((k - 1) \div 8) + 1], 7 - ((k - 1) % 8)) = 1])

withTerminator(bits, dataCapacityBits) ==
    IF Len(bits) < dataCapacityBits
    THEN Put(bits, 0, IF Len(bits) + 4 > dataCapacityBits
                      THEN dataCapacityBits - Len(bits) ELSE 4)
    ELSE bits

withByteAlignment(bits) ==
    IF Len(bits) % 8 # 0 THEN Put(bits, 0, 8 - (Len(bits) % 8)) ELSE bits

padBytesSwapped == <<17, 236>>

padBytes == <<236, 17>>

\* for bitBuffer.Len() < dataCapacityBits { Put(padBytes[padIdx], 8); padIdx = (padIdx+1)%2 }
\* The t-th iteration (from 0) puts padBytes[t % 2].
withPadBytes(bits, dataCapacityBits) ==
    LET iterations == IF Len(bits) < dataCapacityBits
                      THEN (dataCapacityBits - Len(bits) + 7) \div 8 ELSE 0
    IN bits \o Force([k \in 1..(8 * iterations) |->
                        Bit(padBytes[(((k - 1) \div 8) % 2) + 1], 7 - ((k - 1) % 8)) = 1])

bitValue(bits, idx, j) == IF idx <= Len(bits) /\ bits[idx] THEN Pow2(7 - j) ELSE 0

\* Convert bits to bytes: val |= 1 << (7 - j) for every set bit i+j < len(bits).
bitsToCodewords(bits) ==
    Force([n \in 1..((Len(bits) + 7) \div 8) |->
             LET i == 8 * (n - 1) + 1
             IN bitValue(bits, i, 0) + bitValue(bits, i + 1, 1)
                + bitValue(bits, i + 2, 2) + bitValue(bits, i + 3, 3)
                + bitValue(bits, i + 4, 4) + bitValue(bits, i + 5, 5)
                + bitValue(bits, i + 6, 6) + bitValue(bits, i + 7, 7)])

encodeData(data, vInfo) ==
    LET dataCapacityBits == (vInfo.TotalCodewords - vInfo.ECCodewords) * 8
    IN bitsToCodewords(
         withPadBytes(withByteAlignment(withTerminator(segmentBits(data), dataCapacityBits)),
                      dataCapacityBits))

\* Size: 21 + 4*(v-1)
symbolSizeOffByOne(v) == 21 + 4 * v

symbolSize(v) == 21 + 4 * (v - 1)

(***************************************************************************)
(* NewQRCode: matrix construction. A grid state g is the pair of arrays     *)
(* [isF |-> isFunction, mod |-> qr.Modules], both row-major; cell (r, c)    *)
(* of a grid of side S is element r*S + c + 1.                             *)
(***************************************************************************)
CellIndex(S, r, c) == r * S + c + 1
RowOf(S, k) == (k - 1) \div S
ColOf(S, k) == (k - 1) % S
At(grid, S, r, c) == grid[CellIndex(S, r, c)]

emptyGrid(S) ==
    LET blank == Force([k \in 1..(S * S) |-> FALSE])
    IN [isF |-> blank, mod |-> blank]

\* isFunction[r][c] = true; qr.Modules[r][c] = V[r, c], for the cells
\* (r, c) with R[r, c]; R and V are functions on the cells of the grid.
Paint(g, S, R, V) ==
    [isF |-> Force([k \in 1..(S * S) |-> g.isF[k] \/ R[RowOf(S, k), ColOf(S, k)]]),
     mod |-> Force([k \in 1..(S * S) |->
                      IF R[RowOf(S, k), ColOf(S, k)]
                      THEN V[RowOf(S, k), ColOf(S, k)] ELSE g.mod[k]])]

\* if !isFunction[r][c] { isFunction[r][c] = true; qr.Modules[r][c] = V[r, c] }
PaintFree(g, S, R, V) ==
    [isF |-> Force([k \in 1..(S * S) |-> g.isF[k] \/ R[RowOf(S, k), ColOf(S, k)]]),
     mod |-> Force([k \in 1..(S * S) |->
                      IF R[RowOf(S, k), ColOf(S, k)] /\ ~g.isF[k]
                      THEN V[RowOf(S, k), ColOf(S, k)] ELSE g.mod[k]])]

\* if !isFunction[r][c] { isFunction[r][c] = true }
Reserve(g, S, R) ==
    [isF |-> Force([k \in 1..(S * S) |-> g.isF[k] \/ R[RowOf(S, k), ColOf(S, k)]]),
     mod |-> g.mod]

addFinderPattern(g, S, r0, c0) ==
    Paint(g, S,
          [r, c \in 0..(S - 1) |->
              /\ r >= r0 /\ r < r0 + 7 /\ c >= c0 /\ c < c0 + 7
              /\ r < S /\ c < S /\ r >= 0 /\ c >= 0],
          [r, c \in 0..(S - 1) |->
              LET i == r - r0
                  j == c - c0
              IN \/ i = 0 \/ i = 6 \/ j = 0 \/ j = 6
                 \/ (i >= 2 /\ i <= 4 /\ j >= 2 /\ j <= 4)])

\* Separators: the three loops over i = 0..7.
addSeparators(g, S) ==
    LET topLeft == Paint(g, S,
                     [r, c \in 0..(S - 1) |-> (r < 8 /\ c = 7) \/ (r = 7 /\ c < 8)],
                     [r, c \in 0..(S - 1) |-> FALSE])
        topRight == Paint(topLeft, S,
                     [r, c \in 0..(S - 1) |-> (r < 8 /\ c = S - 8) \/ (r = 7 /\ c >= S - 8)],
                     [r, c \in 0..(S - 1) |-> FALSE])
    IN Paint(topRight, S,
             [r, c \in 0..(S - 1) |-> (r >= S - 8 /\ c = 7) \/ (r = S - 8 /\ c < 8)],
             [r, c \in 0..(S - 1) |-> FALSE])

\* locs of the switch on v (empty below version 2).
alignmentLocs(v) ==
    IF v = 2 THEN <<6, 18>>
    ELSE IF v = 3 THEN <<6, 22>>
    ELSE IF v = 4 THEN <<6, 26>>
    ELSE <<>>

alignmentSkipped(S, cx, cy) ==
    (cx < 9 /\ cy < 9) \/ (cx < 9 /\ cy > S - 9) \/ (cx > S - 9 /\ cy < 9)

addAlignmentAt(g, S, cx, cy) ==
    IF alignmentSkipped(S, cx, cy) THEN g
    ELSE PaintFree(g, S,
           [r, c \in 0..(S - 1) |->
               r >= cy - 2 /\ r <= cy + 2 /\ c >= cx - 2 /\ c <= cx + 2],
           [r, c \in 0..(S - 1) |->
               LET i == r - cy
                   j == c - cx
               IN \/ i = -2 \/ i = 2 \/ j = -2 \/ j = 2 \/ (i = 0 /\ j = 0)])

\* for cx in locs { for cy in locs { ... } }, in that order.
RECURSIVE alignmentLoop(_, _, _, _)
alignmentLoop(g, S, locs, n) ==
    IF n >= Len(locs) * Len(locs) THEN g
    ELSE alignmentLoop(
           addAlignmentAt(g, S, locs[(n \div Len(locs)) + 1], locs[(n % Len(locs)) + 1]),
           S, locs, n + 1)

addAlignmentPatterns(g, S, v) ==
    IF v >= 2 THEN alignmentLoop(g, S, alignmentLocs(v), 0) ELSE g

\* Timing patterns: i = 8..Size-9, row 6 then column 6.
addTimingPatterns(g, S) ==
    PaintFree(g, S,
              [r, c \in 0..(S - 1) |->
                  (r = 6 /\ c >= 8 /\ c < S - 8) \/ (c = 6 /\ r >= 8 /\ r < S - 8)],
              [r, c \in 0..(S - 1) |-> IF r = 6 THEN c % 2 = 0 ELSE r % 2 = 0])

addDarkModule(g, S) ==
    Paint(g, S,
          [r, c \in 0..(S - 1) |-> r = S - 8 /\ c = 8],
          [r, c \in 0..(S - 1) |-> TRUE])

\* Reserve Format Information areas: i = 0..8, i = 0..7 and i = 0..6.
reserveFormatAreas(g, S) ==
    Reserve(g, S,
            [r, c \in 0..(S - 1) |->
                \/ (r = 8 /\ c < 9) \/ (c = 8 /\ r < 9)
                \/ (r = 8 /\ c >= S - 8)
                \/ (c = 8 /\ r >= S - 7)])

\* Everything placed before the data, in the order of the source.
functionPatterns(v) ==
    LET S == symbolSize(v)
        g1 == addFinderPattern(emptyGrid(S), S, 0, 0)
        g2 == addFinderPattern(g1, S, 0, S - 7)
        g3 == addFinderPattern(g2, S, S - 7, 0)
        g4 == addSeparators(g3, S)
        g5 == addAlignmentPatterns(g4, S, v)
        g6 == addTimingPatterns(g5, S)
        g7 == addDarkModule(g6, S)
    IN reserveFormatAreas(g7, S)

\* The function patterns depend on the version alone: one grid per version.
functionPatternsByVersion ==
    <<functionPatterns(1), functionPatterns(2), functionPatterns(3), functionPatterns(4)>>

(***************************************************************************)
(* NewQRCode: data placement (zig-zag, mask pattern 0).                    *)
(***************************************************************************)
\* The values col takes in "for col := Size-1; col > 0; col -= 2", with the
\* step "if col == 6 { col-- }" at the head of the body.
RECURSIVE columnLoop(_)
columnLoop(col) ==
    IF col <= 0 THEN <<>>
    ELSE LET c2 == IF col = 6 THEN col - 1 ELSE col
         IN <<c2>> \o columnLoop(c2 - 2)

\* The cells in the order the three nested loops visit them: for each col,
\* rowIter = 0..Size-1 (r = Size-1-rowIter when ((col+1)/2)%2 == 0), c = col, col-1.
zigZagCells(S) ==
    LET cols == columnLoop(S - 1)
    IN Force([t \in 1..(Len(cols) * 2 * S) |->
                LET col == cols[((t - 1) \div (2 * S)) + 1]
                    rowIter == ((t - 1) % (2 * S)) \div 2
                    r == IF ((col + 1) \div 2) % 2 = 0 THEN S - 1 - rowIter ELSE rowIter
                    c == col - ((t - 1) % 2)
                IN CellIndex(S, r, c)])

zigZagByVersion ==
    <<zigZagCells(symbolSize(1)), zigZagCells(symbolSize(2)),
      zigZagCells(symbolSize(3)), zigZagCells(symbolSize(4))>>

\* getBit(k): (finalMessage[k/8] >> (7 - k%8)) & 1 == 1
getBit(message, k) == Bit(message[(k \div 8) + 1], 7 - (k % 8)) = 1

\* Apply mask 0: (row + column) % 2 == 0
maskZeroInverted(r, c) == (r + c) % 2 = 1

maskZero(r, c) == (r + c) % 2 = 0

\* The body of the innermost loop for one visited cell; st = [mod, idx].
placeStep(st, isF, S, message, cell) ==
    IF isF[cell] THEN st
    ELSE LET totalBits == Len(message) * 8
             bit == IF st.idx < totalBits THEN getBit(message, st.idx) ELSE FALSE
             masked == IF maskZero(RowOf(S, cell), ColOf(S, cell)) THEN ~bit ELSE bit
         IN [mod |-> [st.mod EXCEPT ![cell] = masked],
             idx |-> IF st.idx < totalBits THEN st.idx + 1 ELSE st.idx]

\* The visits lo..hi of the traversal, in order.
RECURSIVE placeLoop(_, _, _, _, _, _, _)
placeLoop(st, isF, S, message, order, lo, hi) ==
    IF lo > hi THEN st
    ELSE IF lo = hi THEN placeStep(st, isF, S, message, order[lo])
    ELSE LET mid == (lo + hi) \div 2
             left == placeLoop(st, isF, S, message, order, lo, mid)
         IN IF left.idx < 0 THEN left
            ELSE placeLoop(left, isF, S, message, order, mid + 1, hi)

placeData(g, v, message) ==
    LET order == zigZagByVersion[v]
    IN placeLoop([mod |-> g.mod, idx |-> 0], g.isF, symbolSize(v), message,
                 order, 1, Len(order))

(***************************************************************************)
(* NewQRCode: format information.                                          *)
(***************************************************************************)
\* The switch on level.
ecBitsOf(lvl) ==
    IF lvl = LevelL THEN 1
    ELSE IF lvl = LevelM THEN 0
    ELSE IF lvl = LevelQ THEN 3
    ELSE IF lvl = LevelH THEN 2
    ELSE 0

maskPattern == 0

\* The switch on i: the cell of bit i in the copy around the top-left finder.
topLeftFormatCell(i) ==
    IF i <= 5 THEN <<i, 8>>
    ELSE IF i = 6 THEN <<7, 8>>
    ELSE IF i = 7 THEN <<8, 8>>
    ELSE IF i = 8 THEN <<8, 7>>
    ELSE <<8, 14 - i>>

\* The cell of bit i in the second copy:
\* setModule(8, Size-1-i) for i < 8, setModule(Size-8+(i-8), 8) otherwise.
secondFormatCell(S, i) ==
    IF i < 8 THEN <<8, S - 1 - i>> ELSE <<(S - 8) + (i - 8), 8>>

\* for i := 0; i < 15; i++ { ... }: both writes of bit i, then the next i.
RECURSIVE formatLoop(_, _, _, _)
formatLoop(mod, S, formatPoly, i) ==
    IF i >= 15 \/ Len(mod) < 0 THEN mod
    ELSE LET bit == Bit(formatPoly, i) = 1
             tl == topLeftFormatCell(i)
             sc == secondFormatCell(S, i)
             m1 == [mod EXCEPT ![CellIndex(S, tl[1], tl[2])] = bit]
         IN formatLoop([m1 EXCEPT ![CellIndex(S, sc[1], sc[2])] = bit], S, formatPoly, i + 1)

writeFormatInfo(mod, S, lvl) ==
    formatLoop(mod, S, calculateBCHFormat(BitOr(ecBitsOf(lvl) * 8, maskPattern)), 0)

(***************************************************************************)
(* NewQRCode as a whole: the returned pair (qr, err) and, for the claims   *)
(* about them, the locals dataCodewords and finalMessage.                  *)
(***************************************************************************)
NilQR == [Version |-> 0, Level |-> 0, Size |-> 0, Modules |-> <<>>]

NewQRCodeResult(data, lvl) ==
    LET v == chooseVersion(data, lvl)
    IN IF v = 0
       THEN [qr |-> NilQR, err |-> TRUE, dataCodewords |-> <<>>, finalMessage |-> <<>>]
       ELSE LET vInfo == tableLookup(v, lvl)
                dc == encodeData(data, vInfo)
                ecCodewords == CalculateECCodewords(dc, vInfo.ECCodewords)
                fm == dc \o ecCodewords
                S == symbolSize(v)
                placed == placeData(functionPatternsByVersion[v], v, fm)
            IN [qr |-> [Version |-> v, Level |-> lvl, Size |-> S,
                        Modules |-> writeFormatInfo(placed.mod, S, lvl)],
                err |-> FALSE, dataCodewords |-> dc, finalMessage |-> fm]

(***************************************************************************)
(* writer.go: QRCode.WritePNG. The image is [dim, Pix], Pix the palette    *)
(* indices row by row (0 white, 1 black); png.Encode is lossless.          *)
(***************************************************************************)
border == 4

effectiveScale(sc) == IF sc < 1 THEN 1 ELSE sc

\* <<startX, startY>> of the module at row r, column c.
moduleOriginTransposed(r, c, sc) == <<(r + border) * sc, (c + border) * sc>>

moduleOrigin(r, c, sc) == <<(c + border) * sc, (r + border) * sc>>

\* img.SetColorIndex(x, y, 1)
setColorIndex(pix, dim, x, y) == [pix EXCEPT ![y * dim + x + 1] = 1]

\* for y := 0; y < scale; y++ { for x := 0; x < scale; x++ { ... } }
RECURSIVE blockLoop(_, _, _, _, _)
blockLoop(pix, dim, origin, sc, n) ==
    IF n >= sc * sc \/ Len(pix) < 0 THEN pix
    ELSE blockLoop(setColorIndex(pix, dim, origin[1] + (n % sc), origin[2] + (n \div sc)),
                   dim, origin, sc, n + 1)

\* The modules lo..hi in row-major order (for r, for c).
RECURSIVE moduleLoop(_, _, _, _, _, _)
moduleLoop(pix, symbol, sc, dim, lo, hi) ==
    IF lo > hi THEN pix
    ELSE IF lo = hi
    THEN IF symbol.Modules[lo]
         THEN blockLoop(pix, dim,
                        moduleOrigin(RowOf(symbol.Size, lo), ColOf(symbol.Size, lo), sc),
                        sc, 0)
         ELSE pix
    ELSE LET mid == (lo + hi) \div 2
             left == moduleLoop(pix, symbol, sc, dim, lo, mid)
         IN IF Len(left) < 0 THEN left
            ELSE moduleLoop(left, symbol, sc, dim, mid + 1, hi)

WritePNGResult(symbol, scaleArg) ==
    LET sc == effectiveScale(scaleArg)
        dim == (symbol.Size + 2 * border) * sc
        white == Force([i \in 1..(dim * dim) |-> 0])
    IN [dim |-> dim,
        Pix |-> moduleLoop(white, symbol, sc, dim, 1, symbol.Size * symbol.Size)]

(***************************************************************************)
(* Decode. Its source is not part of the modelled files (qr_test.go and    *)
(* the example call it); it is modelled from the specification's decode    *)
(* path: sample the module grid at the discovered scale, read and correct  *)
(* both format copies, recompute the function cells from the version, walk *)
(* the zig-zag order, unmask, check the block's syndromes, parse byte mode.*)
(* A result is [ok, text]. Blocks with non-zero syndromes, interleaved     *)
(* blocks and versions outside the version table end in ok = FALSE.        *)
(***************************************************************************)
DecodeFailure == [ok |-> FALSE, text |-> <<>>]

pixelAt(image, x, y) == image.Pix[y * image.dim + x + 1]

\* The quiet zone is 4 modules wide and the corner module of the top-left
\* finder is dark: the first dark pixel of the diagonal is at 4 * scale.
discoverScale(image) ==
    LET dark == {d \in 0..(image.dim - 1) : pixelAt(image, d, d) = 1}
    IN IF dark = {} THEN 0
       ELSE LET first == CHOOSE d \in dark : \A e \in dark : d <= e
            IN IF first % 4 = 0 THEN first \div 4 ELSE 0

sampleGrid(image, sc, S) ==
    Force([k \in 1..(S * S) |->
             pixelAt(image, (ColOf(S, k) + 4) * sc, (RowOf(S, k) + 4) * sc) = 1])

\* The standard cells of format bit i: first and second copy.
standardFormatCell1(i) ==
    IF i <= 5 THEN <<i, 8>>
    ELSE IF i = 6 THEN <<7, 8>>
    ELSE IF i = 7 THEN <<8, 8>>
    ELSE IF i = 8 THEN <<8, 7>>
    ELSE <<8, 14 - i>>

standardFormatCell2(S, i) ==
    IF i < 8 THEN <<8, S - 1 - i>> ELSE <<S - 15 + i, 8>>

RECURSIVE readFormatWord(_, _, _, _)
readFormatWord(grid, S, copy, i) ==
    IF i >= 15 THEN 0
    ELSE LET cell == IF copy = 1 THEN standardFormatCell1(i) ELSE standardFormatCell2(S, i)
         IN (IF At(grid, S, cell[1], cell[2]) THEN Pow2(i) ELSE 0)
            + readFormatWord(grid, S, copy, i + 1)

FormatCodewords == Force([x \in 1..32 |-> calculateBCHFormat(x - 1)])

\* The 5 data bits of the codeword within 3 bit errors of word, or -1.
bchCorrect(word) ==
    LET near == {x \in 0..31 :
                   PopCount(BitXor(word, FormatCodewords[x + 1])) <= 3}
    IN IF near = {} THEN -1 ELSE CHOOSE x \in near : TRUE

\* Both copies corrected; they must not disagree.
decodeFormat(grid, S) ==
    LET f1 == bchCorrect(readFormatWord(grid, S, 1, 0))
        f2 == bchCorrect(readFormatWord(grid, S, 2, 0))
    IN IF f1 = -1 THEN f2
       ELSE IF f2 = -1 \/ f2 = f1 THEN f1
       ELSE -1

\* The eight standard mask conditions.
standardMask(m, r, c) ==
    IF m = 0 THEN (r + c) % 2 = 0
    ELSE IF m = 1 THEN r % 2 = 0
    ELSE IF m = 2 THEN c % 3 = 0
    ELSE IF m = 3 THEN (r + c) % 3 = 0
    ELSE IF m = 4 THEN ((r \div 2) + (c \div 3)) % 2 = 0
    ELSE IF m = 5 THEN ((r * c) % 2) + ((r * c) % 3) = 0
    ELSE IF m = 6 THEN (((r * c) % 2) + ((r * c) % 3)) % 2 = 0
    ELSE (((r + c) % 2) + ((r * c) % 3)) % 2 = 0

\* Function-cell membership computed from version and size alone
\* (versions 1..6: at most one alignment pattern, no version information).
isFunctionCell(v, S, r, c) ==
    \/ (r <= 8 /\ c <= 8)
    \/ (r <= 8 /\ c >= S - 8)
    \/ (r >= S - 8 /\ c <= 8)
    \/ r = 6 \/ c = 6
    \/ (v >= 2 /\ r >= S - 9 /\ r <= S - 5 /\ c >= S - 9 /\ c <= S - 5)

\* The canonical traversal: column pairs from the right, column 6 skipped,
\* the first pair upward and the direction alternating from pair to pair.
canonicalOrder(S) ==
    Force([t \in 1..(((S - 1) \div 2) * 2 * S) |->
             LET pair == (t - 1) \div (2 * S)
                 right == IF S - 1 - 2 * pair > 6 THEN S - 1 - 2 * pair ELSE S - 2 - 2 * pair
                 i == ((t - 1) % (2 * S)) \div 2
                 r == IF pair % 2 = 0 THEN S - 1 - i ELSE i
             IN CellIndex(S, r, right - ((t - 1) % 2))])

canonicalDataCells(v) ==
    LET S == 21 + 4 * (v - 1)
    IN SelectSeq(canonicalOrder(S),
                 LAMBDA k : ~isFunctionCell(v, S, RowOf(S, k), ColOf(S, k)))

canonicalDataCellsByVersion ==
    <<canonicalDataCells(1), canonicalDataCells(2), canonicalDataCells(3),
      canonicalDataCells(4)>>

\* Horner evaluation with the field's multiply.
RECURSIVE gfPolyEval(_, _, _, _)
gfPolyEval(poly, x, k, acc) ==
    IF k > Len(poly) \/ acc < 0 THEN acc
    ELSE gfPolyEval(poly, x, k + 1, BitXor(gfMul(acc, x), poly[k]))

syndromesZero(block, ecLen) ==
    \A i \in 0..(ecLen - 1) : gfPolyEval(block, expTable(i), 1, 0) = 0

\* value of the n bits of codewords starting at bit offset off (from 0).
RECURSIVE readBits(_, _, _)
readBits(codewords, off, n) ==
    IF n = 0 THEN 0
    ELSE Bit(codewords[(off \div 8) + 1], 7 - (off % 8)) * Pow2(n - 1)
         + readBits(codewords, off + 1, n - 1)

parseByteSegment(data) ==
    IF Len(data) < 2 \/ readBits(data, 0, 4) # 4 THEN DecodeFailure
    ELSE LET count == readBits(data, 4, 8)
         IN IF 12 + 8 * count > 8 * Len(data) THEN DecodeFailure
            ELSE [ok |-> TRUE,
                  text |-> Force([n \in 1..count |-> readBits(data, 12 + 8 * (n - 1), 8)])]

decodeGrid(grid, S) ==
    IF S < 21 \/ (S - 21) % 4 # 0 \/ ((S - 21) \div 4) + 1 > 4 THEN DecodeFailure
    ELSE LET v == ((S - 21) \div 4) + 1
             fmt == decodeFormat(grid, S)
         IN IF fmt = -1 THEN DecodeFailure
            ELSE LET info == tableLookup(v, fmt \div 8)
                     cells == canonicalDataCellsByVersion[v]
                 IN IF info.Blocks # 1 \/ Len(cells) < 8 * info.TotalCodewords
                    THEN DecodeFailure
                    ELSE LET bits == Force([t \in 1..(8 * info.TotalCodewords) |->
                                              LET k == cells[t]
                                              IN grid[k] #
                                                 standardMask(fmt % 8, RowOf(S, k), ColOf(S, k))])
                             block == bitsToCodewords(bits)
                         IN IF ~syndromesZero(block, info.ECCodewords)
                            THEN DecodeFailure
                            ELSE parseByteSegment(
                                   SubSeq(block, 1, info.TotalCodewords - info.ECCodewords))

DecodeResult(image) ==
    LET sc == discoverScale(image)
    IN IF sc = 0 \/ image.dim % sc # 0 \/ image.dim \div sc < 8 + 21 THEN DecodeFailure
       ELSE decodeGrid(sampleGrid(image, sc, (image.dim \div sc) - 8), (image.dim \div sc) - 8)

(***************************************************************************)
(* The library in use: NewQRCode on a content and a level, then WritePNG   *)
(* at a scale, then Decode of the written image.                           *)
(***************************************************************************)
NilImg == [dim |-> 0, Pix |-> <<>>]

\* "Hello World" and "This is a longer string for V2 QR Code!!" (qr_test.go).
HelloWorld ==
    <<72, 101, 108, 108, 111, 32, 87, 111, 114, 108, 100>>

LongerString ==
    <<84, 104, 105, 115, 32, 105, 115, 32, 97, 32, 108, 111, 110, 103, 101,
      114, 32, 115, 116, 114, 105, 110, 103, 32, 102, 111, 114, 32, 86, 50,
      32, 81, 82, 32, 67, 111, 100, 101, 33, 33>>

\* Byte strings of every length 0..MaxLen, MaxSeed + 1 of each length.
Pattern(n, s) == Force([i \in 1..n |-> (i * 101 + s * 37 + i * i * (s + 1)) % 256])

ContentInputs ==
    {Pattern(n, s) : n \in 0..MaxLen, s \in 0..MaxSeed} \cup {HelloWorld, LongerString}

LevelInputs == 0..MaxLevelInput

ScaleInputs == 0..MaxScale

\* Nothing built, written or decoded yet.
QRUnset ==
    /\ qr = NilQR /\ err = FALSE
    /\ dataCodewords = <<>> /\ finalMessage = <<>>
    /\ scale = 0 /\ img = NilImg /\ decoded = <<>> /\ decodeErr = FALSE

QRIdle == content = <<>> /\ level = 0 /\ QRUnset

RSIdle == rsData = <<>> /\ rsEC = 0 /\ rsOut = <<>>

BCHIdle == fmtIn = 0 /\ fmtWord = 0 /\ received = 0

\* The caller's arguments to NewQRCode are any content and level value.
Init ==
    /\ pc = "idle"
    /\ content \in ContentInputs
    /\ level \in LevelInputs
    /\ QRUnset /\ RSIdle /\ BCHIdle

NewQRCode ==
    /\ pc = "idle"
    /\ LET res == NewQRCodeResult(content, level)
       IN /\ qr' = res.qr
          /\ err' = res.err
          /\ dataCodewords' = res.dataCodewords
          /\ finalMessage' = res.finalMessage
          /\ pc' = IF res.err THEN "failed" ELSE "encoded"
    /\ UNCHANGED <<content, level, scale, img, decoded, decodeErr>>
    /\ UNCHANGED rsVars
    /\ UNCHANGED bchVars

\* Called on the symbol NewQRCode returned (callers stop on its error).
WritePNG ==
    /\ pc = "encoded"
    /\ \E sc \in ScaleInputs :
          /\ scale' = sc
          /\ img' = WritePNGResult(qr, sc)
    /\ pc' = "written"
    /\ UNCHANGED <<content, level, qr, err, dataCodewords, finalMessage, decoded, decodeErr>>
    /\ UNCHANGED rsVars
    /\ UNCHANGED bchVars

Decode ==
    /\ pc = "written"
    /\ LET res == DecodeResult(img)
       IN /\ decoded' = res.text
          /\ decodeErr' = ~res.ok
    /\ pc' = "decoded"
    /\ UNCHANGED <<content, level, qr, err, dataCodewords, finalMessage, scale, img>>
    /\ UNCHANGED rsVars
    /\ UNCHANGED bchVars

Next == NewQRCode \/ WritePNG \/ Decode

Spec == Init /\ [][Next]_vars

(***************************************************************************)
(* Reed-Solomon on its own: CalculateECCodewords applied to bounded        *)
(* inputs.                                                                 *)
(***************************************************************************)
RSBytes == {0, 1, 2, 29, 142, 255}

RSInputs == UNION {[1..n -> RSBytes] : n \in 0..MaxRSLen}

\* EC lengths: the small ones, and lengths the version table uses.
RSECInputs == (0..MaxRSEC) \cup {7, 10, 17}

InitRS ==
    /\ pc = "rs_idle"
    /\ QRIdle
    /\ rsData \in RSInputs /\ rsEC \in RSECInputs /\ rsOut = <<>>
    /\ BCHIdle

RSEncode ==
    /\ pc = "rs_idle"
    /\ pc' = "rs_done"
    /\ rsOut' = CalculateECCodewords(rsData, rsEC)
    /\ UNCHANGED <<rsData, rsEC>>
    /\ UNCHANGED qrVars
    /\ UNCHANGED bchVars

NextRS == RSEncode

SpecRS == InitRS /\ [][NextRS]_vars

(***************************************************************************)
(* The format word on its own: calculateBCHFormat applied to each 5-bit    *)
(* input, then up to MaxFlips bits of the word flipped in transit.         *)
(***************************************************************************)
ErrorPatterns == {e \in 0..32767 : PopCount(e) <= MaxFlips}

InitBCH ==
    /\ pc = "bch_idle"
    /\ QRIdle
    /\ RSIdle
    /\ fmtIn \in 0..31 /\ fmtWord = 0 /\ received = 0

BCHEncode ==
    /\ pc = "bch_idle"
    /\ pc' = "bch_encoded"
    /\ fmtWord' = calculateBCHFormat(fmtIn)
    /\ received' = fmtWord'
    /\ UNCHANGED fmtIn
    /\ UNCHANGED qrVars
    /\ UNCHANGED rsVars

BCHCorrupt ==
    /\ pc = "bch_encoded"
    /\ pc' = "bch_received"
    /\ \E e \in ErrorPatterns : received' = BitXor(fmtWord, e)
    /\ UNCHANGED <<fmtIn, fmtWord>>
    /\ UNCHANGED qrVars
    /\ UNCHANGED rsVars

NextBCH == BCHEncode \/ BCHCorrupt

SpecBCH == InitBCH /\ [][NextBCH]_vars

(***************************************************************************)
(* Reference quantities of the claims, read from the version table.        *)
(***************************************************************************)
Levels == {LevelL, LevelM, LevelQ, LevelH}

Encoded == pc \in {"encoded", "written", "decoded"}

Returned == pc \in {"encoded", "failed", "written", "decoded"}

\* Data capacity in bits of version v at level lvl.
CapacityBits(v, lvl) ==
    (tableLookup(v, lvl).TotalCodewords - tableLookup(v, lvl).ECCodewords) * 8

\* Length of the encoded content: mode indicator, 8-bit count, the bytes.
EncodedBits(data) == 4 + 8 + 8 * Len(data)

\* The versions of the table with enough capacity for the content.
FittingVersions(data, lvl) ==
    {v \in DOMAIN versionTable : CapacityBits(v, lvl) >= EncodedBits(data)}

Least(S) == CHOOSE x \in S : \A y \in S : x <= y

(***************************************************************************)
(* C1. NewQRCode selects the smallest version whose data capacity holds    *)
(* the encoded content, and returns the content-too-long error only when   *)
(* no version has enough capacity. Stated over the versions of the table   *)
(* the program carries (a part of the claim's range 1..40): whenever a     *)
(* version of the table fits, NewQRCode returns a symbol of the smallest   *)
(* fitting version.                                                        *)
(***************************************************************************)
C1_SmallestVersion ==
    (Returned /\ level \in Levels /\ FittingVersions(content, level) # {}) =>
        /\ err = FALSE
        /\ qr.Version = Least(FittingVersions(content, level))

(***************************************************************************)
(* C2. Capacity boundary. As stated: content that fills the data capacity  *)
(* of version V exactly (19 bytes at version 1, level L) is encoded at     *)
(* version V and one byte more at version V + 1.                           *)
(***************************************************************************)
\* The capacity in bytes the claim names: 19 at version 1, level L.
DataCodewordCount(v, lvl) ==
    tableLookup(v, lvl).TotalCodewords - tableLookup(v, lvl).ECCodewords

SelectableVersions(lvl) ==
    {v \in DOMAIN versionTable : tableLookup(v, lvl).Blocks = 1}

ByteCapacity(v, lvl) == DataCodewordCount(v, lvl) - 2

C4_RoundTrip ==
    (level = LevelL /\ pc \in {"failed", "decoded"}) =>
        /\ pc = "decoded"
        /\ scale >= 1 => (decodeErr = FALSE /\ decoded = content)

\* What does hold: at level L every symbol NewQRCode returns decodes to
\* its content, at every scale argument.
C4_RoundTripOfSymbols ==
    (level = LevelL /\ pc = "decoded") => (decodeErr = FALSE /\ decoded = content)

(***************************************************************************)
(* C5. Reed-Solomon encoding is systematic: CalculateECCodewords returns   *)
(* exactly n codewords, and the polynomial whose coefficients are the data *)
(* followed by those n codewords is zero at every root 2^i, i = 0..n-1     *)
(* (all n syndromes are zero). The field operations of the check are       *)
(* computed from the primitive polynomial, not read from the tables.       *)
(***************************************************************************)
\* a * b in GF(256) modulo x^8+x^4+x^3+x^2+1, by shift and add.
RECURSIVE FieldMul(_, _)
FieldMul(a, b) ==
    IF b = 0 THEN 0
    ELSE LET a2 == IF a * 2 >= 256 THEN BitXor(a * 2, 285) ELSE a * 2
             rest == FieldMul(a2, b \div 2)
         IN IF b % 2 = 1 THEN BitXor(a, rest) ELSE rest

RECURSIVE FieldPow2(_)
FieldPow2(i) == IF i = 0 THEN 1 ELSE FieldMul(FieldPow2(i - 1), 2)

\* Horner evaluation of the polynomial with coefficients poly (highest first).
RECURSIVE PolyEval(_, _, _, _)
PolyEval(poly, x, k, acc) ==
    IF k > Len(poly) \/ acc < 0 THEN acc
    ELSE PolyEval(poly, x, k + 1, BitXor(FieldMul(acc, x), poly[k]))

Syndrome(block, i) == PolyEval(block, FieldPow2(i), 1, 0)

C5_Systematic ==
    pc = "rs_done" =>
        /\ Len(rsOut) = rsEC
        /\ \A k \in 1..Len(rsOut) : rsOut[k] \in 0..255
        /\ \A i \in 0..(rsEC - 1) : Syndrome(rsData \o rsOut, i) = 0

C5_Witness ==
    /\ pc = "rs_done"
    /\ rsEC = 4
    /\ Len(rsData) = 3
    /\ \E k \in 1..Len(rsOut) : rsOut[k] # 0

(***************************************************************************)
(* C6. For each of the 32 inputs x, calculateBCHFormat(x) XOR 0x5412 has x *)
(* as its top 5 bits and is divisible by 0x537 over GF(2); the words of    *)
(* two distinct inputs differ in at least 7 bits; hence a word with up to  *)
(* 3 flipped bits is strictly nearer to the word of x than to any other.   *)
(***************************************************************************)
\* The remainder of the GF(2) polynomial w modulo g.
RECURSIVE GF2Degree(_)
GF2Degree(x) == IF x <= 1 THEN 0 ELSE 1 + GF2Degree(x \div 2)

RECURSIVE GF2Mod(_, _)
GF2Mod(w, g) ==
    IF w = 0 \/ GF2Degree(w) < GF2Degree(g) THEN w
    ELSE GF2Mod(BitXor(w, g * Pow2(GF2Degree(w) - GF2Degree(g))), g)

Distance(a, b) == PopCount(BitXor(a, b))

FormatWords == Force([x \in 1..32 |-> calculateBCHFormat(x - 1)])

C6_BCHFormat ==
    /\ pc \in {"bch_encoded", "bch_received"} =>
          LET w == BitXor(fmtWord, 21522)
          IN /\ fmtWord \in 0..32767
             /\ w \div 1024 = fmtIn
             /\ GF2Mod(w, 1335) = 0
             /\ \A y \in 0..31 : y # fmtIn => Distance(fmtWord, FormatWords[y + 1]) >= 7
    /\ (pc = "bch_received" /\ Distance(received, fmtWord) <= 3) =>
          \A y \in 0..31 :
              y # fmtIn => Distance(received, FormatWords[y + 1]) > Distance(received, fmtWord)

C6_Witness ==
    /\ pc = "bch_received"
    /\ fmtIn = 8
    /\ Distance(received, fmtWord) = 3

(***************************************************************************)
(* C7. The dark module: in every symbol NewQRCode returns, the module at   *)
(* row Size - 8, column 8 is dark.                                         *)
(***************************************************************************)
C7_DarkModule ==
    Encoded => At(qr.Modules, qr.Size, qr.Size - 8, 8) = TRUE

(***************************************************************************)
(* C8. Both copies of the format information hold the same 15-bit word,    *)
(* the BCH word of (level bits, mask 0): bit i of it is at the i-th cell   *)
(* of the copy around the top-left finder, and the second copy has bits    *)
(* 7..0 in row 8, columns Size-8..Size-1 and bits 8..14 in column 8, rows  *)
(* Size-7..Size-1.                                                         *)
(***************************************************************************)
FormatWordOf(lvl) == FormatWords[ecBitsOf(lvl) * 8 + maskPattern + 1]

FirstCopyCell(i) ==
    IF i <= 5 THEN <<i, 8>>
    ELSE IF i = 6 THEN <<7, 8>>
    ELSE IF i = 7 THEN <<8, 8>>
    ELSE IF i = 8 THEN <<8, 7>>
    ELSE <<8, 14 - i>>

SecondCopyCell(S, i) ==
    IF i <= 7 THEN <<8, S - 1 - i>> ELSE <<S - 7 + (i - 8), 8>>

ModuleBit(r, c) == IF At(qr.Modules, qr.Size, r, c) THEN 1 ELSE 0

C8_FormatCopies ==
    Encoded =>
        \A i \in 0..14 :
            /\ ModuleBit(FirstCopyCell(i)[1], FirstCopyCell(i)[2])
                  = Bit(FormatWordOf(level), i)
            /\ ModuleBit(SecondCopyCell(qr.Size, i)[1], SecondCopyCell(qr.Size, i)[2])
                  = Bit(FormatWordOf(level), i)

\* What does hold: the copy around the top-left finder carries the word.
C8_FirstCopy ==
    Encoded =>
        \A i \in 0..14 :
            ModuleBit(FirstCopyCell(i)[1], FirstCopyCell(i)[2])
                = Bit(FormatWordOf(level), i)

(***************************************************************************)
(* C9. The data codewords: NewQRCode produces exactly TotalCodewords -     *)
(* ECCodewords of them. They are the mode indicator 0100, the 8-bit count  *)
(* and the content bytes, then a terminator of min(4, remaining) zero      *)
(* bits, zero bits up to a byte boundary, and the pad bytes 0xEC, 0x11     *)
(* alternately up to the capacity; the final message has TotalCodewords    *)
(* codewords and starts with the data codewords.                           *)
(***************************************************************************)
ExpectedDataBit(data, capBits, k) ==
    LET segLen == 12 + 8 * Len(data)
        termLen == Min(4, capBits - segLen)
        aligned == ((segLen + termLen + 7) \div 8) * 8
    IN IF k < 4 THEN Bit(4, 3 - k)
       ELSE IF k < 12 THEN Bit(Len(data), 11 - k)
       ELSE IF k < segLen THEN Bit(data[((k - 12) \div 8) + 1], 7 - ((k - 12) % 8))
       ELSE IF k < aligned THEN 0
       ELSE Bit(IF ((k - aligned) \div 8) % 2 = 0 THEN 236 ELSE 17, 7 - ((k - aligned) % 8))

C9_DataCodewords ==
    pc = "encoded" =>
        LET info == tableLookup(qr.Version, level)
            cap == info.TotalCodewords - info.ECCodewords
        IN /\ Len(dataCodewords) = cap
           /\ \A k \in 0..(8 * cap - 1) :
                 Bit(dataCodewords[(k \div 8) + 1], 7 - (k % 8))
                     = ExpectedDataBit(content, 8 * cap, k)
           /\ Len(finalMessage) = info.TotalCodewords
           /\ SubSeq(finalMessage, 1, cap) = dataCodewords

\* "Hello World" at level L: 11 bytes in 19 data codewords, 6 pad bytes.
C9_Witness ==
    /\ pc = "encoded"
    /\ content = HelloWorld
    /\ level = LevelL
    /\ Len(dataCodewords) = 19
    /\ dataCodewords[14] = 236
    /\ dataCodewords[19] = 17

(***************************************************************************)
(* C10. WritePNG: the image is a square of side (Size + 8) * scale pixels  *)
(* with a quiet zone of 4 modules; the pixel at (x, y) is black exactly    *)
(* when it lies inside the symbol and the module at row y / scale - 4,     *)
(* column x / scale - 4 is dark; a scale below 1 is taken as 1.            *)
(***************************************************************************)
UsedScale == IF scale < 1 THEN 1 ELSE scale

ModuleUnder(x, y) == <<(y \div UsedScale) - 4, (x \div UsedScale) - 4>>

InSymbol(rc) == rc[1] \in 0..(qr.Size - 1) /\ rc[2] \in 0..(qr.Size - 1)

C10_Image ==
    pc = "written" =>
        /\ img.dim = (qr.Size + 8) * UsedScale
        /\ Len(img.Pix) = img.dim * img.dim
        /\ \A y \in 0..(img.dim - 1) :
              \A x \in 0..(img.dim - 1) :
                 (img.Pix[y * img.dim + x + 1] = 1)
                     <=> (/\ InSymbol(ModuleUnder(x, y))
                          /\ At(qr.Modules, qr.Size, ModuleUnder(x, y)[1], ModuleUnder(x, y)[2]))

C10_Witness ==
    /\ pc = "written"
    /\ scale = 2
    /\ qr.Version = 2
    /\ img.dim = 66
    /\ img.Pix[8 * 66 + 8 + 1] = 1
    /\ img.Pix[7 * 66 + 8 + 1] = 0

(***************************************************************************)
(* C11. Data placement, for every version NewQRCode returns: visiting the  *)
(* non-function cells in the zig-zag order (column pairs from the          *)
(* bottom-right column, the first pair upward and the direction            *)
(* alternating, column 6 skipped), the k-th cell of the returned symbol    *)
(* holds bit k (MSB first) of the final message XOR the mask-0 value       *)
(* ((row + col) mod 2 = 0), for every k < 8 * TotalCodewords; there are at *)
(* least that many cells, so no message bit is dropped, and the cells      *)
(* beyond the message hold a zero bit under the mask. The order and the    *)
(* function cells are computed here from the symbol's geometry, not taken  *)
(* from the traversal of NewQRCode.                                        *)
(***************************************************************************)
\* Finders with separators and format areas, timing row and column, the
\* alignment pattern of versions 2 and up, the dark module.
IsFunctionModule(v, S, r, c) ==
    \/ (r <= 8 /\ c <= 8)
    \/ (r <= 8 /\ c >= S - 8)
    \/ (r >= S - 8 /\ c <= 8)
    \/ r = 6
    \/ c = 6
    \/ (v >= 2 /\ r \in (S - 9)..(S - 5) /\ c \in (S - 9)..(S - 5))

\* The right-hand column of the p-th column pair (p = 0 is the rightmost).
PairColumn(S, p) == IF S - 1 - 2 * p > 6 THEN S - 1 - 2 * p ELSE S - 2 - 2 * p

\* The t-th cell visited, <<row, column>>, t = 0, 1, ...
ZigZagVisit(S, t) ==
    LET p == t \div (2 * S)
        step == (t % (2 * S)) \div 2
    IN <<IF p % 2 = 0 THEN S - 1 - step ELSE step, PairColumn(S, p) - (t % 2)>>

DataCellsOf(v) ==
    LET S == 21 + 4 * (v - 1)
        visits == [t \in 1..(((S - 1) \div 2) * 2 * S) |-> ZigZagVisit(S, t - 1)]
    IN Force(SelectSeq(visits, LAMBDA rc : ~IsFunctionModule(v, S, rc[1], rc[2])))

DataCellsByVersion == <<DataCellsOf(1), DataCellsOf(2), DataCellsOf(3), DataCellsOf(4)>>

MessageBit(k) ==
    IF k < 8 * Len(finalMessage)
    THEN Bit(finalMessage[(k \div 8) + 1], 7 - (k % 8))
    ELSE 0

MaskZeroBit(r, c) == IF (r + c) % 2 = 0 THEN 1 ELSE 0

C11_DataPlacement ==
    pc = "encoded" =>
        LET cells == DataCellsByVersion[qr.Version]
        IN /\ 8 * Len(finalMessage) = 8 * tableLookup(qr.Version, level).TotalCodewords
           /\ Len(cells) >= 8 * Len(finalMessage)
           /\ \A k \in 0..(Len(cells) - 1) :
                 ModuleBit(cells[k + 1][1], cells[k + 1][2])
                     = (MessageBit(k) + MaskZeroBit(cells[k + 1][1], cells[k + 1][2])) % 2

\* The test content at level L: version 3, 560 message bits in 567 cells.
C11_Witness ==
    /\ pc = "encoded"
    /\ content = LongerString
    /\ level = LevelL
    /\ 8 * Len(finalMessage) = 560
    /\ Len(DataCellsByVersion[qr.Version]) = 567
    /\ \E k \in 0..559 : MessageBit(k) = 1
=============================================================================
